---- MODULE Spec2Model ----
(***************************************************************************)
(* Model of src/main.py: the FastAPI service that downloads the UK         *)
(* price-paid dataset (GET /download), deduplicates it chunk by chunk      *)
(* (GET /deduplicate) and answers point lookups (GET /data/{uuid}).        *)
(*                                                                         *)
(* All handlers and the background task are `async def` bodies without a   *)
(* single `await`: each runs on the one event loop and holds it until it   *)
(* returns.  `running` names the coroutine holding the loop.               *)
(***************************************************************************)
EXTENDS Integers, Sequences, FiniteSets, TLC

VARIABLES
    remote,           \* the rows served at DATA_URL (fixed during a behaviour)
    data_file,        \* DATA_FILE on disk, with the rows written so far
    dedup_file,       \* deduplicated_uk_property_dataset.csv on disk
    download_status,  \* the global dict download_status
    task,             \* the download_dataset background tasks and their position
    running,          \* 0, or the task that holds the event loop
    response,         \* the last HTTP response sent
    in_rows,          \* input of the stand-alone deduplication runs
    batch,            \* <<B1, B2>>: the two chunk sizes of those runs
    out               \* <<out1, out2>>: their outputs, NotRun before

vars == <<remote, data_file, dedup_file, download_status, task, running,
          response, in_rows, batch, out>>

sysvars == <<remote, data_file, dedup_file, download_status, task, running, response>>
purevars == <<in_rows, batch, out>>

----------------------------------------------------------------------------
(* Bounds *)

\* longest dataset, in rows
MaxRows == 3
\* largest chunk size tried by the stand-alone deduplication runs
MaxBatch == 3
\* number of download_dataset tasks that can be scheduled in a behaviour
MaxTasks == 2

----------------------------------------------------------------------------
(* Data *)

column_names == << "uuid", "price", "date", "postcode", "type", "isNew",
                   "duration", "code", "dNo", "street", "locality", "town",
                   "district", "county", "skip1", "skip2" >>

\* position of a column in a row
RECURSIVE IndexFrom(_, _)
IndexFrom(c, i) == IF column_names[i] = c THEN i ELSE IndexFrom(c, i + 1)
Col(c) == IndexFrom(c, 1)

\* pandas' missing value and Python's None, as read back from a frame
NaN == "<NaN>"
None == "<None>"

\* a file on disk: absent, or present with the lines written to it so far
NoFile == [exists |-> FALSE, lines |-> <<>>]
File(lines) == [exists |-> TRUE, lines |-> lines]

\* the result of a stand-alone deduplication run
NotRun == [ran |-> FALSE, frame |-> <<>>]
Ran(frame) == [ran |-> TRUE, frame |-> frame]

\* the strings pd.read_csv turns into NaN by default (keep_default_na=True);
\* of these the datasets below use "" and "NA"
na_values == {"", "NA", "N/A", "NULL", "NaN", "n/a", "nan", "null"}

\* a raw CSV line: uuid, price and the five address fields vary
RawRow(id, price, street, locality, town, district, county) ==
    << id, price, "d", "p", "t", "n", "f", "c", "1",
       street, locality, town, district, county, "s1", "s2" >>

RowPool == { RawRow("id1", "100", "A", "A", "A", "A", "A"),
             RawRow("id2", "200", "B", "B", "B", "B", "B"),
             RawRow("id3", "300", "A", "A", "A", "A", "A"),
             RawRow("id4", "",    "A", "A", "A", "A", "B"),
             RawRow("id5", "500", "",  "A", "A", "A", "A"),
             RawRow("id6", "600", "NA", "A", "A", "A", "A"),
             RawRow("id7", "700", "",  "A", "A", "A", "A") }

\* the datasets: sequences of distinct rows (uuid is unique per source)
RECURSIVE SeqsUpTo(_)
SeqsUpTo(n) ==
    IF n = 0 THEN { <<>> }
    ELSE LET shorter == SeqsUpTo(n - 1)
         IN  shorter \cup { Append(s, r) : s \in { t \in shorter : Len(t) = n - 1 },
                                           r \in RowPool }
Injective(s) == \A i, j \in 1..Len(s) : s[i] = s[j] => i = j
Datasets == { s \in SeqsUpTo(MaxRows) : Injective(s) }

\* the datasets the service is run on: those over the rows id1..id4 (a
\* duplicate pair, a row differing from it in county only, an empty field)
ServedPool == { r \in RowPool : r[1] \in {"id1", "id2", "id3", "id4"} }
Served == { s \in Datasets : \A i \in 1..Len(s) : s[i] \in ServedPool }

----------------------------------------------------------------------------
(* pandas, as used by deduplicate_data and get_data *)

\* pd.read_csv(..., header=None, names=column_names): every line is a data
\* line, and a field that is one of na_values becomes NaN
ParseField(s) == IF s \in na_values THEN NaN ELSE s
ParseLine(line) == [i \in 1..Len(line) |-> ParseField(line[i])]
read_csv(lines) == [k \in 1..Len(lines) |-> ParseLine(lines[k])]

\* the chunks of pd.read_csv(..., chunksize=B): B rows each, the last shorter
RECURSIVE Chunks(_, _)
Chunks(frame, B) ==
    IF Len(frame) = 0 THEN <<>>
    ELSE IF Len(frame) <= B THEN << frame >>
    ELSE << SubSeq(frame, 1, B) >> \o Chunks(SubSeq(frame, B + 1, Len(frame)), B)

\* subset=["street", "locality", "town", "district", "county"]
subset == << "street", "locality", "town", "district", "county" >>
SubsetKey(rec) == [k \in 1..Len(subset) |-> rec[Col(subset[k])]]

\* DataFrame.drop_duplicates(subset=...): keep='first', NaN equals NaN
RECURSIVE KeepFirst(_, _)
KeepFirst(frame, n) ==
    IF n = 0 THEN <<>>
    ELSE LET before == KeepFirst(frame, n - 1)
         IN  IF \E j \in 1..(n - 1) : SubsetKey(frame[j]) = SubsetKey(frame[n])
             THEN before
             ELSE Append(before, frame[n])
drop_duplicates(frame) == KeepFirst(frame, Len(frame))

\* pd.concat(deduplicated_data, ignore_index=True)
RECURSIVE concat(_)
concat(frames) ==
    IF Len(frames) = 0 THEN <<>> ELSE Head(frames) \o concat(Tail(frames))

\* lines 82-89: the loop over the chunks and the concatenation
deduplicated_df(lines, B) ==
    LET chunks == Chunks(read_csv(lines), B)
        deduplicated_data == [k \in 1..Len(chunks) |-> drop_duplicates(chunks[k])]
    IN  concat(deduplicated_data)

\* DataFrame.to_csv(path, index=False): a header line, then NaN written as ""
FormatField(v) == IF v = NaN THEN "" ELSE v
FormatLine(rec) == [i \in 1..Len(rec) |-> FormatField(rec[i])]
to_csv(frame) == << column_names >> \o [k \in 1..Len(frame) |-> FormatLine(frame[k])]

----------------------------------------------------------------------------
(* The service *)

Tasks == 1..MaxTasks

\* LoopFree as it would be if download_dataset awaited its network and disk
\* operations: the loop would take other work while a download is under way
LoopFree_Yields == TRUE

\* the loop is free: no coroutine is between its first and last statement.
\* download_dataset, download_data, deduplicate_data and get_data contain no
\* await, so each runs to its end before the loop takes anything else.
LoopFree == running = 0

InProgress(i) == task[i] \in {"downloading", "writing"}

Exists(f) == f.exists

\* an HTTP response: the handler, the status code, the message or error
\* text, and the records of a JSON body
Respond(op, code, text) == [op |-> op, code |-> code, text |-> text, records |-> <<>>]
RespondRecords(op, code, records) == [op |-> op, code |-> code, text |-> "", records |-> records]

\* Failed without line 56: the status is set, the reason is not stored
Failed_NoReason(reason) == [status |-> "failed"]

\* lines 55-56: the except clause of download_dataset
Failed(reason) == [status |-> "failed", error |-> reason]

SetStatus(s) == [download_status EXCEPT !.status = s]

Init ==
    /\ remote \in Served
    /\ data_file \in {NoFile, File(remote)}
    /\ dedup_file = NoFile
    /\ download_status = [status |-> "not started"]
    /\ task = [i \in Tasks |-> "none"]
    /\ running = 0
    /\ response = Respond("none", 0, "")
    /\ in_rows = <<>>
    /\ batch = <<1, 1>>
    /\ out = <<NotRun, NotRun>>

\* task_start without the test of lines 30-32: the task downloads whether or
\* not the file is there
task_start_NoExistsCheck(i) ==
    /\ LoopFree
    /\ task[i] = "queued"
    /\ \A j \in Tasks : j < i => task[j] # "queued"
    /\ download_status' = SetStatus("downloading")
    /\ task' = [task EXCEPT ![i] = "downloading"]
    /\ running' = i
    /\ UNCHANGED <<remote, data_file, dedup_file, response, purevars>>

\* lines 27-35: a scheduled download_dataset starts; it returns at once when
\* the file exists, else it sets "downloading" and goes on to the request.
\* The scheduled tasks are alike, so the one scheduled first starts first.
task_start(i) ==
    /\ LoopFree
    /\ task[i] = "queued"
    /\ \A j \in Tasks : j < i => task[j] # "queued"
    /\ IF Exists(data_file)
       THEN /\ download_status' = SetStatus("already downloaded")
            /\ task' = [task EXCEPT ![i] = "skipped"]
            /\ UNCHANGED running
       ELSE /\ download_status' = SetStatus("downloading")
            /\ task' = [task EXCEPT ![i] = "downloading"]
            /\ running' = i
    /\ UNCHANGED <<remote, data_file, dedup_file, response, purevars>>

\* lines 36-45: mkdir, requests.get, raise_for_status, then open(DATA_FILE, "wb"),
\* which creates (or truncates) the file
task_request(i) ==
    /\ running = i
    /\ task[i] = "downloading"
    /\ data_file' = File(<<>>)
    /\ task' = [task EXCEPT ![i] = "writing"]
    /\ UNCHANGED <<remote, dedup_file, download_status, running, response, purevars>>

\* lines 36-45 raising (connection error, HTTP error status, mkdir or open
\* failing): lines 54-56, no file has been created by this task
task_request_fails(i) ==
    /\ running = i
    /\ task[i] = "downloading"
    /\ download_status' = Failed("HTTPError")
    /\ task' = [task EXCEPT ![i] = "failed"]
    /\ running' = 0
    /\ UNCHANGED <<remote, data_file, dedup_file, response, purevars>>

\* lines 46-49: one more piece of the body is written to the file
task_write(i) ==
    /\ running = i
    /\ task[i] = "writing"
    /\ Exists(data_file)
    /\ Len(data_file.lines) < Len(remote)
    /\ data_file' = File(Append(data_file.lines, remote[Len(data_file.lines) + 1]))
    /\ UNCHANGED <<remote, dedup_file, download_status, task, running, response, purevars>>

\* lines 46-49 raising before the body is complete (connection dropped, disk
\* full): lines 54-56; the with-statement closes the file and leaves it
task_write_fails(i) ==
    /\ running = i
    /\ task[i] = "writing"
    /\ Exists(data_file)
    /\ Len(data_file.lines) < Len(remote)
    /\ download_status' = Failed("ChunkedEncodingError")
    /\ task' = [task EXCEPT ![i] = "failed"]
    /\ running' = 0
    /\ UNCHANGED <<remote, data_file, dedup_file, response, purevars>>

\* task_finish without line 52: the download ends and the status is left
task_finish_NoStatus(i) ==
    /\ running = i
    /\ task[i] = "writing"
    /\ data_file = File(remote)
    /\ task' = [task EXCEPT ![i] = "Downloaded"]
    /\ running' = 0
    /\ UNCHANGED <<remote, data_file, dedup_file, download_status, response, purevars>>

\* lines 51-52: the body is complete
task_finish(i) ==
    /\ running = i
    /\ task[i] = "writing"
    /\ data_file = File(remote)
    /\ download_status' = SetStatus("Downloaded")
    /\ task' = [task EXCEPT ![i] = "Downloaded"]
    /\ running' = 0
    /\ UNCHANGED <<remote, data_file, dedup_file, response, purevars>>

download_dataset ==
    \E i \in Tasks :
        \/ task_start(i)
        \/ task_request(i)
        \/ task_request_fails(i)
        \/ task_write(i)
        \/ task_write_fails(i)
        \/ task_finish(i)

\* background_tasks.add_task(download_dataset): the task runs after the
\* response has been sent
add_task ==
    /\ \E i \in Tasks : task[i] = "none"
    /\ LET i == CHOOSE j \in Tasks : task[j] = "none" /\ \A k \in Tasks : task[k] = "none" => j <= k
       IN  task' = [task EXCEPT ![i] = "queued"]

\* lines 58-71: GET /download
download_data ==
    /\ LoopFree
    /\ IF Exists(data_file)
       THEN /\ download_status' = SetStatus("already downloaded")
            /\ response' = Respond("download_data", 200, "Data has already been downloaded.")
            /\ UNCHANGED task
       ELSE IF download_status.status = "downloading"
       THEN /\ response' = Respond("download_data", 202, "Data download is in progress.")
            /\ UNCHANGED <<download_status, task>>
       ELSE IF download_status.status = "failed"
       THEN /\ response' = Respond("download_data", 500, download_status.error)
            /\ UNCHANGED <<download_status, task>>
       ELSE /\ add_task
            /\ response' = Respond("download_data", 202, "Data download initiated.")
            /\ UNCHANGED download_status
    /\ UNCHANGED <<remote, data_file, dedup_file, running, purevars>>

\* line 83: chunk_size = 10000, scaled to datasets of MaxRows rows so that a
\* dataset spans several chunks
chunk_size == 2

\* DataFrame.replace({pd.NA: None, inf: None, -inf: None}) and to_json: a
\* missing value is serialised as null
NullIfMissing(v) == IF v = NaN THEN None ELSE v
to_json(frame) == [k \in 1..Len(frame) |-> [i \in 1..Len(frame[k]) |-> NullIfMissing(frame[k][i])]]

\* deduplicate_data using the download_status it declares global: the 404
\* branch resets the status so that the next trigger downloads
deduplicate_data_ResetsStatus ==
    /\ LoopFree
    /\ IF Exists(data_file)
       THEN LET df == deduplicated_df(data_file.lines, chunk_size)
                lines == to_csv(df)
            IN  /\ \/ /\ dedup_file' = File(lines)
                      /\ response' = RespondRecords("deduplicate_data", 200, to_json(df))
                   \/ /\ UNCHANGED dedup_file
                      /\ response' = Respond("deduplicate_data", 500, "Internal Server Error during deduplication.")
                   \/ /\ \E n \in 0..Len(lines) : dedup_file' = File(SubSeq(lines, 1, n))
                      /\ response' = Respond("deduplicate_data", 500, "Internal Server Error during deduplication.")
                /\ UNCHANGED download_status
       ELSE /\ response' = Respond("deduplicate_data", 404, "Data file not found for deduplication")
            /\ download_status' = SetStatus("not started")
            /\ UNCHANGED dedup_file
    /\ UNCHANGED <<remote, data_file, task, running, purevars>>

\* lines 73-110: GET /deduplicate.  The run either completes, or raises
\* before to_csv has opened the artifact, or raises after to_csv has written
\* n lines of it (to_csv opens the target itself and writes in place), or
\* raises after to_csv (n = all lines); every exception becomes a 500
deduplicate_data ==
    /\ LoopFree
    /\ IF Exists(data_file)
       THEN LET df == deduplicated_df(data_file.lines, chunk_size)
                lines == to_csv(df)
            IN  \/ /\ dedup_file' = File(lines)
                   /\ response' = RespondRecords("deduplicate_data", 200, to_json(df))
                \/ /\ UNCHANGED dedup_file
                   /\ response' = Respond("deduplicate_data", 500, "Internal Server Error during deduplication.")
                \/ /\ \E n \in 0..Len(lines) : dedup_file' = File(SubSeq(lines, 1, n))
                   /\ response' = Respond("deduplicate_data", 500, "Internal Server Error during deduplication.")
       ELSE /\ response' = Respond("deduplicate_data", 404, "Data file not found for deduplication")
            /\ UNCHANGED dedup_file
    /\ UNCHANGED <<remote, data_file, download_status, task, running, purevars>>

\* the uuids asked for: a first occurrence, a later duplicate, a row with an
\* empty field, the name of the uuid column, and a uuid no dataset has
Queries == {"id1", "id3", "id4", "uuid", "id0"}

\* Normalize without lines 123-126: the record is returned as read
Normalize_Skip(rec) == rec

\* lines 122-126: missing values of the record become None
Normalize(rec) == [i \in 1..Len(rec) |-> NullIfMissing(rec[i])]

\* lines 117-130, the body of the try: the status the body ends with and the
\* record it returns.  read_csv raises when the file is absent, and an empty
\* file has no row to return (a 500 after line 131 either way); read_csv
\* is given header=None, so the header line to_csv wrote is a row of df; no
\* dtype is given, but that row keeps every column a column of strings
Lookup(uuid) ==
    IF ~Exists(dedup_file) \/ Len(dedup_file.lines) = 0
    THEN [raised |-> "read_csv", code |-> 500, records |-> <<>>]
    ELSE LET df == read_csv(dedup_file.lines)
             filtered_data == SelectSeq(df, LAMBDA rec : rec[Col("uuid")] = uuid)
         IN  IF Len(filtered_data) > 0
             THEN [raised |-> "", code |-> 200, records |-> << Normalize(filtered_data[1]) >>]
             ELSE [raised |-> "HTTPException", code |-> 404, records |-> <<>>]

\* lines 131-132: except Exception catches whatever the body raised, the
\* HTTPException(404) of line 130 included, and raises a 500 in its place
Caught(outcome) ==
    IF outcome.raised # ""
    THEN Respond("get_data", 500, "Internal server error.")
    ELSE RespondRecords("get_data", outcome.code, outcome.records)

\* lines 114-132: GET /data/{uuid}
get_data(uuid) ==
    /\ LoopFree
    /\ response' = Caught(Lookup(uuid))
    /\ UNCHANGED <<remote, data_file, dedup_file, download_status, task, running, purevars>>

Next ==
    \/ download_dataset
    \/ download_data
    \/ deduplicate_data
    \/ \E uuid \in Queries : get_data(uuid)

Spec == Init /\ [][Next]_vars

\* a scheduled background task is run, and each of its blocking calls
\* returns or raises: download_dataset keeps taking steps while it has one
FairSpec == Spec /\ WF_vars(download_dataset)

----------------------------------------------------------------------------
(* Stand-alone deduplication runs: the computation of lines 82-89 on every *)
(* dataset, with two chunk sizes                                           *)

InitDedup ==
    /\ in_rows \in Datasets
    /\ batch \in (1..MaxBatch) \X (1..MaxBatch)
    /\ out = <<NotRun, NotRun>>
    /\ remote = <<>>
    /\ data_file = NoFile
    /\ dedup_file = NoFile
    /\ download_status = [status |-> "not started"]
    /\ task = [i \in Tasks |-> "none"]
    /\ running = 0
    /\ response = Respond("none", 0, "")

Deduplicate(k) ==
    /\ ~out[k].ran
    /\ out' = [out EXCEPT ![k] = Ran(deduplicated_df(in_rows, batch[k]))]
    /\ UNCHANGED <<in_rows, batch, sysvars>>

NextDedup == \E k \in 1..2 : Deduplicate(k)

SpecDedup == InitDedup /\ [][NextDedup]_vars

----------------------------------------------------------------------------
(* Properties of the deduplication (checked under SpecDedup) *)

\* DedupKey of a raw line: (street, locality, town, district, county), as written
DedupKey(line) == SubsetKey(line)

\* the first occurrence of each distinct DedupKey, in order of first occurrence
RECURSIVE FirstOccurrences(_, _)
FirstOccurrences(lines, n) ==
    IF n = 0 THEN <<>>
    ELSE LET before == FirstOccurrences(lines, n - 1)
         IN  IF \E j \in 1..(n - 1) : DedupKey(lines[j]) = DedupKey(lines[n])
             THEN before
             ELSE Append(before, lines[n])
Reference(lines) == read_csv(FirstOccurrences(lines, Len(lines)))

\* C1: the output of a deduplication run holds no two records with the same
\* DedupKey, whatever the dataset and the chunk size
C1_Uniqueness ==
    \A k \in 1..2 :
        out[k].ran =>
            \A i, j \in 1..Len(out[k].frame) :
                i < j => SubsetKey(out[k].frame[i]) # SubsetKey(out[k].frame[j])

\* C2: two runs on the same dataset with different chunk sizes yield the same
\* records in the same order
C2_Determinism ==
    (out[1].ran /\ out[2].ran /\ batch[1] # batch[2]) => out[1].frame = out[2].frame

\* C3: the output of a run is the sequence of the first occurrences of the
\* distinct DedupKeys of the dataset, in order of first occurrence
C3_FirstOccurrences ==
    \A k \in 1..2 : out[k].ran => out[k].frame = Reference(in_rows)

----------------------------------------------------------------------------
(* Properties of the service (checked under Spec) *)

\* the frame a completed deduplication run has published, empty when the
\* artifact on disk is not the complete output of a run
Published ==
    /\ Exists(data_file)
    /\ dedup_file = File(to_csv(deduplicated_df(data_file.lines, chunk_size)))
DeduplicatedSet ==
    IF Published THEN deduplicated_df(data_file.lines, chunk_size) ELSE <<>>

\* C4: a lookup of x returns 200 with the member of the deduplicated set whose
\* uuid is x when there is one, and 404 in every other case, also when no
\* run has completed
C4_LookupCorrectness ==
    [][ \A x \in Queries :
          get_data(x) =>
            LET set == DeduplicatedSet
                members == { k \in 1..Len(set) : set[k][Col("uuid")] = x }
            IN  IF members # {}
                THEN /\ response'.code = 200
                     /\ \E k \in members : response'.records = << Normalize(set[k]) >>
                ELSE response'.code = 404 ]_vars

\* the records of the artifact on disk: its lines after the header line
ArtifactRecords ==
    IF Exists(dedup_file) /\ Len(dedup_file.lines) > 0
    THEN read_csv(Tail(dedup_file.lines))
    ELSE <<>>

\* C5: a lookup made while there is no artifact, or of a uuid no record of the
\* artifact has, is answered 404
C5_MissIs404 ==
    [][ \A x \in Queries :
          ( /\ get_data(x)
            /\ \/ ~Exists(dedup_file)
               \/ \A k \in 1..Len(ArtifactRecords) : ArtifactRecords[k][Col("uuid")] # x )
          => response'.code = 404 ]_vars

\* C6: a fetch trigger that finds the status "failed" schedules a new download
C6_RetryAfterFailure ==
    [][ (download_data /\ download_status.status = "failed")
          => \E i \in Tasks : task[i] # "queued" /\ task'[i] = "queued" ]_vars

\* C7: while the raw file on disk is partial, the status is never "already
\* downloaded"
C7_PartialNotAlreadyPresent ==
    (Exists(data_file) /\ data_file.lines # remote)
        => download_status.status # "already downloaded"

\* a scheduled fetch that has not reached its end
Unfinished(i) == task[i] \in {"queued", "downloading", "writing"}

\* C8: a fetch trigger issued while an earlier fetch is unfinished is answered
\* "in progress" and schedules nothing
C8_SingleDownload ==
    [][ (download_data /\ \E i \in Tasks : Unfinished(i))
          => /\ response'.text = "Data download is in progress."
             /\ task' = task ]_vars

\* C9: at most one fetch is between its transition to "downloading" and its
\* terminal transition
C9_AtMostOneInProgress ==
    Cardinality({ i \in Tasks : InProgress(i) }) <= 1

\* a fetch is in progress while another scheduled task waits for the loop
C9_Witness ==
    \E i, j \in Tasks : InProgress(i) /\ task[j] = "queued"

\* C10: the artifact a lookup reads is the complete output of a run, never a
\* part of it
C10_AtomicArtifact ==
    [][ \A x \in Queries :
          (get_data(x) /\ Exists(dedup_file)) => Published ]_vars

\* C11: a deduplication trigger that ends in a 500 leaves the artifact on disk
\* as it was before the run
C11_FailedRunPublishesNothing ==
    [][ (deduplicate_data /\ response'.code = 500) => dedup_file' = dedup_file ]_vars

\* C12: while a fetch is in progress a lookup can be handled
C12_FetchDoesNotBlockLookups ==
    (\E i \in Tasks : InProgress(i)) => ENABLED (\E x \in Queries : get_data(x))

\* no fetch has completed, and the raw file, if there is one, was left by a
\* fetch that failed (a task fails only if it found no raw file at its start)
NoSuccessfulFetch ==
    /\ \A i \in Tasks : task[i] # "Downloaded"
    /\ Exists(data_file) => \E i \in Tasks : task[i] = "failed"

\* C13: a deduplication trigger issued before any fetch has completed, from a
\* start without raw file, answers 404 and writes no artifact
C13_SourceMissing ==
    [][ (deduplicate_data /\ NoSuccessfulFetch)
          => (response'.code = 404 /\ dedup_file' = dedup_file) ]_vars

\* C14: when the raw file exists, a fetch trigger and a starting fetch task
\* leave the file as it is, set "already downloaded" and start no download
\* (no task is scheduled, none goes on to the request); the trigger answers
\* 200
C14_FetchIdempotence ==
    [][ (Exists(data_file) /\ (download_data \/ \E i \in Tasks : task_start(i)))
          => /\ data_file' = data_file
             /\ download_status'.status = "already downloaded"
             /\ \A i \in Tasks : task'[i] # task[i] => task'[i] = "skipped"
             /\ download_data => /\ response'.code = 200
                                 /\ response'.text = "Data has already been downloaded." ]_vars

\* with the file on disk, a task has returned at once and a trigger has been
\* answered "already downloaded"
C14_Witness ==
    /\ Exists(data_file)
    /\ download_status.status = "already downloaded"
    /\ \E i \in Tasks : task[i] = "skipped"
    /\ response = Respond("download_data", 200, "Data has already been downloaded.")

\* C15: of two rows of the dataset with the same DedupKey and different uuid,
\* the output of a run holds the earlier one
C15_FirstSeenWins ==
    \A k \in 1..2 :
        out[k].ran =>
            \A i, j \in 1..Len(in_rows) :
                ( /\ i < j
                  /\ DedupKey(in_rows[i]) = DedupKey(in_rows[j])
                  /\ in_rows[i][Col("uuid")] # in_rows[j][Col("uuid")] )
                => \E m \in 1..Len(out[k].frame) : out[k].frame[m] = ParseLine(in_rows[i])

\* C16: whenever the status is "failed" a reason is stored; a failing fetch
\* task ends with the status "failed" and gives the loop back; and a trigger
\* that finds "failed" (and no raw file) answers 500 with the stored reason
C16_FailureCaptured ==
    /\ [](download_status.status = "failed" => "error" \in DOMAIN download_status)
    /\ [][ /\ \A i \in Tasks :
                (task[i] # "failed" /\ task'[i] = "failed")
                    => (download_status'.status = "failed" /\ running' = 0)
           /\ (download_data /\ ~Exists(data_file) /\ download_status.status = "failed")
                => response' = Respond("download_data", 500, download_status.error) ]_vars

\* a fetch has failed and a trigger has been answered with its reason
C16_Witness ==
    /\ download_status.status = "failed"
    /\ \E i \in Tasks : task[i] = "failed"
    /\ response.op = "download_data"
    /\ response.code = 500
    /\ response.text = download_status.error

\* C17: a record returned by a lookup has None in every field that is empty
\* in the row of the raw file it was written from, has no field left empty
\* or NaN, and normalising it again changes nothing
C17_NullRoundTrip ==
    (response.op = "get_data" /\ response.code = 200) =>
        LET rec == response.records[1]
        IN  /\ \A i \in 1..Len(rec) : rec[i] \notin {"", NaN}
            /\ Normalize(rec) = rec
            /\ \A k \in 1..Len(data_file.lines) :
                 data_file.lines[k][Col("uuid")] = rec[Col("uuid")] =>
                   \A i \in 1..Len(rec) : data_file.lines[k][i] = "" => rec[i] = None

\* a lookup has returned a record of the published set with a null field
C17_Witness ==
    /\ Published
    /\ response.op = "get_data"
    /\ response.code = 200
    /\ \E i \in 1..Len(column_names) : response.records[1][i] = None

\* the states a fetch ends in
Terminal == download_status.status \in {"Downloaded", "already downloaded", "failed"}

\* C18: after a trigger has answered "Data download initiated." the status
\* becomes terminal, and a status "downloading" does not last for ever
C18_FetchTerminates ==
    /\ (response.text = "Data download initiated.") ~> Terminal
    /\ (download_status.status = "downloading") ~> Terminal

\* the fetch a trigger initiated has ended in "Downloaded"
C18_Witness ==
    /\ response.text = "Data download initiated."
    /\ download_status.status = "Downloaded"
    /\ \E i \in Tasks : task[i] = "Downloaded"

\* C19: a lookup changes neither download_status, the raw file nor the
\* artifact, and a deduplication trigger changes neither download_status nor
\* the raw file, whatever they answer
C19_ReadPathFrame ==
    [][ /\ (response'.op = "get_data" /\ \E x \in Queries : get_data(x))
            => UNCHANGED <<download_status, data_file, dedup_file>>
        /\ (response'.op = "deduplicate_data" /\ deduplicate_data)
            => UNCHANGED <<download_status, data_file>> ]_vars

\* after a download, a deduplication run and a lookup that returned a record
C19_Witness ==
    /\ download_status.status = "Downloaded"
    /\ Exists(dedup_file)
    /\ response.op = "get_data"
    /\ response.code = 200

====
